---- MODULE Spec2Model ----
(***************************************************************************)
(* Task-local storage of pros-rs (src/pros/src/task.rs): spawn_inner,      *)
(* current, task_local_storage_get/set and LocalKey::with, over a model    *)
(* of the kernel's per-task pointer slots and of the heap cells that the   *)
(* code leaks (the per-task counter cell and the per-(key, task) values).  *)
(* Values are u32 cells, as in a key declared with a counter value.        *)
(* The module also covers the panic path of packages/pros: the panic       *)
(* handler (panic/handler.rs), the ARM EHABI personality routine           *)
(* (panic/unwind.rs) and the kernel entry points that the async_robot!     *)
(* macro exports (lib.rs), each with a specification of its own.           *)
(***************************************************************************)
EXTENDS Integers, Sequences, FiniteSets, TLC

\* ---------------------------------------------------------------- bounds
NumTasks == 2        \* spawned tasks
NumKeys == 2         \* task_local! statics
NumSlots == 2        \* kernel pointer slots per task (indices 0..NumSlots-1)
MaxCalls == 4        \* LocalKey::with calls made, all tasks together

Tasks == 1..NumTasks
Keys == 1..NumKeys
SlotIdx == 0..(NumSlots - 1)
Ops == {"incr", "read"}

\* the null pointer, and "no task" as a mutex holder
NULL == 0
NoTask == 0

\* the value the key's initializer yields (fn() -> T of the key)
KeyInit(k) == 0

\* the value UnsafeCell::new(0) gives the counter cell in spawn_inner
CounterInit == 0

VARIABLES
    heap,        \* leaked cells: per arena, the u32 contents of the boxes leaked so far
    slots,       \* kernel: task -> slot index -> pointer
    spawned,     \* per task: "none" | "created" | "done" (position of spawn_inner),
                 \* or the error spawn_inner returned
    errno,       \* per task: the cause the kernel gave when it could not create it
    entrypoint,  \* per task: spawn_inner's local holding the closure, and the new task's
                 \* read of it: "none" | "live" | "read" | "dropped" | "dangling_read"
    mapInit,     \* per key: index_map's Once has run
    map,         \* per key: HashMap<TaskHandle, u32> as a set of [h, idx]
    holder,      \* per key: the task holding the map's mutex, or NoTask
    depth,       \* per key: number of live guards of the holder
    reentrant,   \* whether sync::Mutex::lock succeeds for the holder
    pc,          \* per task: position inside LocalKey::with
    key,         \* per task: the key of the call in progress
    op,          \* per task: the closure f of the call in progress
    cur,         \* per task: local `current` (a TaskHandle)
    nextEmpty,   \* per task: local `next_empty` (address of a u32)
    idx,         \* per task: the slot index in use (`*index`, `*next_empty`)
    val,         \* per task: local `val` (address of the value)
    calls,       \* per task: with calls started
    ideal,       \* ghost: per task, per key: the value an own, stable storage holds (-1: none)
    order,       \* ghost: per task: slot indices recorded, in order of first access
    bindCount,   \* ghost: per task, per key: map inserts made
    early,       \* ghost: per task: current() found slot 0 empty
    firstVal,    \* ghost: per task, per key: the address f got in the first call
    counterCell, \* ghost: per task: the counter cell spawn_inner leaked for it
    raced,       \* ghost: per key: two tasks' first accesses overlapped
    \* rust_eh_personality (panic/unwind.rs)
    upc,           \* position inside the routine
    state,         \* argument `state` (_Unwind_State bits)
    search_phase,  \* local `search_phase`
    gr,            \* the context's core registers (r0, r1, r12, r13, r15)
    private5,      \* exception_object.private[5], the handler cache
    eh_action,     \* what the frame's LSDA decodes to (result of find_eh_action)
    ret,           \* the reason code returned
    nativeSteps,   \* ghost: calls of __gnu_unwind_frame made in this call
    nativeResult,  \* ghost: what the last call of __gnu_unwind_frame returned
    lsdaLookups,   \* ghost: calls of find_eh_action made in this call
    eh_ip,         \* EHContext.ip of the lookup made in this call
    prevRet,       \* ghost: what the call before this one returned for the same frame
    entryGr,       \* ghost: the registers as they were on entry
    entryPrivate5, \* ghost: private[5] as it was on entry
    \* kernel entry points of async_robot! (lib.rs) and the robot's methods
    ROBOT,         \* static mut ROBOT: "None" or "Some"
    entry,         \* the kernel entry point running
    method,        \* the AsyncRobot method block_on is running
    rpc,           \* position inside the entry point and the method
    sLive,         \* the local `s` of the example's opcontrol is live
    log            \* the <<entry, method>> pairs run so far

vars == <<heap, slots, spawned, errno, mapInit, map, holder, depth, reentrant, pc, key, op,
          cur, nextEmpty, idx, val, calls, ideal, order, bindCount, early, firstVal,
          counterCell, raced, entrypoint,
          upc, state, search_phase, gr, private5, eh_action, ret, nativeSteps,
          nativeResult, lsdaLookups, eh_ip, prevRet, entryGr, entryPrivate5, ROBOT, entry,
          method, rpc, sLive, log>>

unwindVars == <<upc, state, search_phase, gr, private5, eh_action, ret, nativeSteps,
                nativeResult, lsdaLookups, eh_ip, prevRet, entryGr, entryPrivate5>>
robotVars == <<ROBOT, entry, method, rpc, sLive, log>>

kernelVars == <<slots, spawned, errno>>
mutexVars == <<holder, depth, reentrant>>
ghostVars == <<ideal, order, bindCount, early, firstVal, counterCell, raced>>

\* ------------------------------------------------------------ TaskHandle
MkHandle(t, c) == [task |-> t, cell |-> c]

\* mutant: the counter cell is hashed
HandleHashCell(h) == h.cell

\* impl Hash for TaskHandle: only the task is hashed
HandleHash(h) == h.task

\* mutant: equality as #[derive(PartialEq)] would give it
HandleEqDerived(a, b) == a = b

\* impl PartialEq for TaskHandle: only the task is compared
HandleEq(a, b) == a.task = b.task

\* HashMap::get: the entries whose key hashes like h and equals h
MapFind(m, h) == {e \in m : HandleHash(e.h) = HandleHash(h) /\ HandleEq(e.h, h)}

MapGet(m, h) == IF MapFind(m, h) = {} THEN -1 ELSE (CHOOSE e \in MapFind(m, h) : TRUE).idx

\* mutant: the insert is lost
MapInsertDropped(m, h, i) == m

\* mutant: the insert replaces what the map held
MapInsertAlone(m, h, i) == {[h |-> h, idx |-> i]}

\* HashMap::insert: an equal key keeps its stored key and gets the new value
MapInsert(m, h, i) ==
    IF MapFind(m, h) = {}
    THEN m \cup {[h |-> h, idx |-> i]}
    ELSE (m \ MapFind(m, h)) \cup {[h |-> e.h, idx |-> i] : e \in MapFind(m, h)}

\* ------------------------------------------------------------------ heap
\* Box::leak(Box::new(v)): a fresh address. The boxes leaked for task t are
\* numbered 1, 2, ... in t's arena; the address names the arena and the number.
Stride == NumTasks + 1
NewAddr(t) == (Len(heap[t]) + 1) * Stride + t
Alloc(t, v) == [heap EXCEPT ![t] = Append(@, v)]

\* *p and *p = v for a pointer p to a leaked u32
Load(p) == heap[p % Stride][p \div Stride]
Store(p, v) == [heap EXCEPT ![p % Stride][p \div Stride] = v]

\* ---------------------------------------------------------------- kernel
\* mutant: the slot is read from one array shared by all tasks
SlotGetShared(t, i) == slots[1][i]

\* pvTaskGetThreadLocalStoragePointer through task_local_storage_get
SlotGet(t, i) == slots[t][i]

\* vTaskSetThreadLocalStoragePointer through task_local_storage_set
SlotSet(t, i, p) == [slots EXCEPT ![t][i] = p]

InRange(i) == i \in SlotIdx

\* ----------------------------------------------------------------- mutex
\* sync::Mutex::lock can return for task t
CanLock(t, k) == holder[k] = NoTask \/ (holder[k] = t /\ reentrant)

Lock(t, k) ==
    /\ holder' = [holder EXCEPT ![k] = t]
    /\ depth' = [depth EXCEPT ![k] = @ + 1]

\* a MutexGuard is dropped
Unlock(t, k) ==
    /\ depth' = [depth EXCEPT ![k] = @ - 1]
    /\ holder' = [holder EXCEPT ![k] = IF depth[k] = 1 THEN NoTask ELSE @]

\* ------------------------------------------------- unwind ABI constants
\* core registers of the unwind context that the routine names
UNWIND_POINTER_REG == 12
UNWIND_DATA_REG == <<0, 1>>
UNWIND_SP_REG == 13
UNWIND_IP_REG == 15
Regs == {UNWIND_DATA_REG[1], UNWIND_DATA_REG[2], UNWIND_POINTER_REG, UNWIND_SP_REG,
         UNWIND_IP_REG}

\* _Unwind_State
US_VIRTUAL_UNWIND_FRAME == 0
US_UNWIND_FRAME_STARTING == 1
US_UNWIND_FRAME_RESUME == 2
US_ACTION_MASK == 3
US_FORCE_UNWIND == 8
US_END_OF_STACK == 16

\* _Unwind_Reason_Code
URC_NO_REASON == 0
URC_HANDLER_FOUND == 6
URC_INSTALL_CONTEXT == 7
URC_CONTINUE_UNWIND == 8
URC_FAILURE == 9

\* no reason code: the routine has not returned
NoReturn == -1

\* EHAction, and the Err(()) of find_eh_action
NoAction == [kind |-> "None", lpad |-> 0]

\* ------------------------------------------------------------------ Init
Init ==
    /\ heap = [t \in Tasks |-> <<>>]
    /\ slots = [t \in Tasks |-> [i \in SlotIdx |-> NULL]]
    /\ spawned = [t \in Tasks |-> "none"]
    /\ errno = [t \in Tasks |-> "none"]
    /\ entrypoint = [t \in Tasks |-> "none"]
    /\ mapInit = [k \in Keys |-> FALSE]
    /\ map = [k \in Keys |-> {}]
    /\ holder = [k \in Keys |-> NoTask]
    /\ depth = [k \in Keys |-> 0]
    /\ reentrant \in BOOLEAN
    /\ pc = [t \in Tasks |-> "idle"]
    /\ key = [t \in Tasks |-> 1]
    /\ op = [t \in Tasks |-> "read"]
    /\ cur = [t \in Tasks |-> MkHandle(t, NULL)]
    /\ nextEmpty = [t \in Tasks |-> NULL]
    /\ idx = [t \in Tasks |-> 0]
    /\ val = [t \in Tasks |-> NULL]
    /\ calls = [t \in Tasks |-> 0]
    /\ ideal = [t \in Tasks |-> [k \in Keys |-> -1]]
    /\ order = [t \in Tasks |-> <<>>]
    /\ bindCount = [t \in Tasks |-> [k \in Keys |-> 0]]
    /\ early = [t \in Tasks |-> FALSE]
    /\ firstVal = [t \in Tasks |-> [k \in Keys |-> NULL]]
    /\ counterCell = [t \in Tasks |-> NULL]
    /\ raced = [k \in Keys |-> FALSE]
    /\ upc = "idle"
    /\ state = US_VIRTUAL_UNWIND_FRAME
    /\ search_phase = FALSE
    /\ gr = [r \in Regs |-> 0]
    /\ private5 = 0
    /\ eh_action = NoAction
    /\ ret = NoReturn
    /\ nativeSteps = 0
    /\ nativeResult = NoReturn
    /\ lsdaLookups = 0
    /\ eh_ip = 0
    /\ prevRet = NoReturn
    /\ entryGr = [r \in Regs |-> 0]
    /\ entryPrivate5 = 0
    /\ ROBOT = "None"
    /\ entry = "none"
    /\ method = "none"
    /\ rpc = "kernel"
    /\ sLive = FALSE
    /\ log = <<>>

\* ----------------------------------------------------------- spawn_inner
\* task_create succeeded: the kernel task exists and may be scheduled at once
SpawnCreate(t) ==
    /\ spawned[t] = "none"
    /\ \A u \in Tasks : spawned[u] # "created"
    /\ spawned' = [spawned EXCEPT ![t] = "created"]
    /\ entrypoint' = [entrypoint EXCEPT ![t] = "live"]
    /\ UNCHANGED <<unwindVars, robotVars>>
    /\ UNCHANGED <<heap, slots, errno, mapInit, map, mutexVars, pc, key, op, cur,
                   nextEmpty, idx, val, calls, ghostVars>>

\* the kernel's cause of a task_create that returned null
Errnos == {"ENOMEM", "EINVAL"}

\* mutant: every cause is reported as TCBNotCreated
map_errno_any(e) == "TCBNotCreated"

\* map_errno! { SpawnError { ENOMEM => SpawnError::TCBNotCreated } }
map_errno(e) == IF e = "ENOMEM" THEN "TCBNotCreated" ELSE "Unmapped"

\* bail_on!(null, task_create(..)): task_create returned null with cause e and
\* spawn_inner returns at once with the error errno maps to
SpawnFail(t, e) ==
    /\ spawned[t] = "none"
    /\ \A u \in Tasks : spawned[u] # "created"
    /\ errno' = [errno EXCEPT ![t] = e]
    /\ spawned' = [spawned EXCEPT ![t] = map_errno(e)]
    /\ UNCHANGED <<unwindVars, robotVars, entrypoint>>
    /\ UNCHANGED <<heap, slots, mapInit, map, mutexVars, pc, key, op, cur, nextEmpty,
                   idx, val, calls, ghostVars>>

\* the counter cell is leaked and its address stored in slot 0 of the new task
SpawnBootstrap(t) ==
    /\ spawned[t] = "created"
    /\ heap' = Alloc(t, CounterInit)
    /\ slots' = SlotSet(t, 0, NewAddr(t))
    /\ spawned' = [spawned EXCEPT ![t] = "done"]
    /\ counterCell' = [counterCell EXCEPT ![t] = NewAddr(t)]
    /\ entrypoint' = [entrypoint EXCEPT ![t] = IF @ = "live" THEN "dropped" ELSE @]
    /\ UNCHANGED <<unwindVars, robotVars>>
    /\ UNCHANGED <<errno, mapInit, map, mutexVars, pc, key, op, cur, nextEmpty, idx,
                   val, calls, ideal, order, bindCount, early, firstVal, raced>>

\* what a read through a pointer to a local that went out of scope can give:
\* the closure as it was (the stack was not reused yet), or anything else
DanglingReads == {"closure", "garbage"}

\* TaskEntrypoint::cast_and_call_external: the new task, when first scheduled,
\* reads the TaskEntrypoint through the pointer task_create was given and calls
\* its function
TaskEntry(t, r) ==
    /\ spawned[t] \in {"created", "done"}
    /\ entrypoint[t] \in {"live", "dropped"}
    /\ pc[t] = "idle"
    /\ IF entrypoint[t] = "live"
       THEN /\ entrypoint' = [entrypoint EXCEPT ![t] = "read"]
            /\ pc' = pc
       ELSE /\ entrypoint' = [entrypoint EXCEPT ![t] = "dangling_read"]
            /\ pc' = [pc EXCEPT ![t] = IF r = "closure" THEN "idle" ELSE "ub_entry"]
    /\ UNCHANGED <<unwindVars, robotVars>>
    /\ UNCHANGED <<heap, kernelVars, mapInit, map, mutexVars, key, op, cur, nextEmpty,
                   idx, val, calls, ghostVars>>

\* -------------------------------------------------------- LocalKey::with
\* the calls of with started so far, by all tasks (what MaxCalls bounds)
RECURSIVE SumCalls(_)
SumCalls(S) ==
    IF S = {} THEN 0
    ELSE LET t == CHOOSE x \in S : TRUE IN calls[t] + SumCalls(S \ {t})

CallsMade == SumCalls(Tasks)

\* mutant: every call of with makes a new map
call_every(k) == [map EXCEPT ![k] = {}]

\* Once::call_once(|| Mutex::new(HashMap::new())): the closure runs only when
\* the cell is still empty
call_once(k) == IF mapInit[k] THEN map ELSE [map EXCEPT ![k] = {}]

\* the task's code calls KEY.with(f); index_map.call_once creates the map
WithBegin(t, k, o) ==
    /\ pc[t] = "idle"
    /\ spawned[t] \in {"created", "done"}
    /\ entrypoint[t] \in {"read", "dangling_read"}
    /\ CallsMade < MaxCalls
    /\ map' = call_once(k)
    /\ mapInit' = [mapInit EXCEPT ![k] = TRUE]
    /\ key' = [key EXCEPT ![t] = k]
    /\ op' = [op EXCEPT ![t] = o]
    /\ calls' = [calls EXCEPT ![t] = @ + 1]
    /\ pc' = [pc EXCEPT ![t] = "current"]
    /\ UNCHANGED <<unwindVars, robotVars, entrypoint>>
    /\ UNCHANGED <<heap, kernelVars, mutexVars, cur, nextEmpty, idx, val, ghostVars>>

\* current(): slot 0 of the running task is taken for its counter cell
Current(t) ==
    /\ pc[t] = "current"
    /\ IF SlotGet(t, 0) = NULL
       THEN /\ pc' = [pc EXCEPT ![t] = "panicked"]
            /\ early' = [early EXCEPT ![t] = TRUE]
            /\ cur' = cur
       ELSE /\ pc' = [pc EXCEPT ![t] = "lock"]
            /\ early' = early
            /\ cur' = [cur EXCEPT ![t] = MkHandle(t, SlotGet(t, 0))]
    /\ UNCHANGED <<unwindVars, robotVars, entrypoint>>
    /\ UNCHANGED <<heap, kernelVars, mapInit, map, mutexVars, key, op, nextEmpty, idx,
                   val, calls, ideal, order, bindCount, firstVal, counterCell, raced>>

\* another task is inside a call of with on t's key and has no binding either
FirstPending(t) ==
    \E u \in Tasks \ {t} :
        /\ pc[u] \in {"current", "lock"}
        /\ key[u] = key[t]
        /\ MapFind(map[key[t]], MkHandle(u, NULL)) = {}

\* mutant: the lookup is made without taking the mutex
LockCheckUnlocked(t) ==
    /\ pc[t] = "lock"
    /\ IF MapGet(map[key[t]], cur[t]) >= 0
       THEN /\ idx' = [idx EXCEPT ![t] = MapGet(map[key[t]], cur[t])]
            /\ pc' = [pc EXCEPT ![t] = "hit_get"]
       ELSE /\ idx' = idx
            /\ pc' = [pc EXCEPT ![t] = "miss_read"]
    /\ UNCHANGED <<unwindVars, robotVars, entrypoint>>
    /\ UNCHANGED <<heap, kernelVars, mapInit, map, mutexVars, key, op, cur, nextEmpty,
                   val, calls, ghostVars>>

\* mutant: the guard of the scrutinee is dropped before the else block runs
LockCheckGuardDropped(t) ==
    /\ pc[t] = "lock"
    /\ CanLock(t, key[t])
    /\ IF MapGet(map[key[t]], cur[t]) >= 0
       THEN /\ Lock(t, key[t])
            /\ idx' = [idx EXCEPT ![t] = MapGet(map[key[t]], cur[t])]
            /\ pc' = [pc EXCEPT ![t] = "hit_get"]
       ELSE /\ UNCHANGED <<holder, depth>>
            /\ idx' = idx
            /\ pc' = [pc EXCEPT ![t] = "miss_read"]
    /\ raced' = [raced EXCEPT ![key[t]] = @ \/ (MapGet(map[key[t]], cur[t]) < 0 /\ FirstPending(t))]
    /\ UNCHANGED <<unwindVars, robotVars, entrypoint>>
    /\ UNCHANGED <<heap, kernelVars, mapInit, map, reentrant, key, op, cur, nextEmpty,
                   val, calls, ideal, order, bindCount, early, firstVal, counterCell>>

\* the scrutinee of the if let: lock the map and look the handle up; the guard
\* is a temporary of the scrutinee and lives to the end of the if/else
LockCheck(t) ==
    /\ pc[t] = "lock"
    /\ CanLock(t, key[t])
    /\ Lock(t, key[t])
    /\ IF MapGet(map[key[t]], cur[t]) >= 0
       THEN /\ idx' = [idx EXCEPT ![t] = MapGet(map[key[t]], cur[t])]
            /\ pc' = [pc EXCEPT ![t] = "hit_get"]
       ELSE /\ idx' = idx
            /\ pc' = [pc EXCEPT ![t] = "miss_read"]
    /\ raced' = [raced EXCEPT ![key[t]] = @ \/ (MapGet(map[key[t]], cur[t]) < 0 /\ FirstPending(t))]
    /\ UNCHANGED <<unwindVars, robotVars, entrypoint>>
    /\ UNCHANGED <<heap, kernelVars, mapInit, map, reentrant, key, op, cur, nextEmpty,
                   val, calls, ideal, order, bindCount, early, firstVal, counterCell>>

\* a kernel slot read at index i by task t, then unwrap
ReadSlot(t, i, next) ==
    IF ~InRange(i)
    THEN /\ pc' = [pc EXCEPT ![t] = "ub_get"]
         /\ val' = val
    ELSE IF SlotGet(t, i) = NULL
    THEN /\ pc' = [pc EXCEPT ![t] = "panicked"]
         /\ val' = val
    ELSE /\ pc' = [pc EXCEPT ![t] = next]
         /\ val' = [val EXCEPT ![t] = SlotGet(t, i)]

\* with returns: its locals go out of scope
Return(t) ==
    /\ pc' = [pc EXCEPT ![t] = "idle"]
    /\ key' = [key EXCEPT ![t] = 1]
    /\ op' = [op EXCEPT ![t] = "read"]
    /\ cur' = [cur EXCEPT ![t] = MkHandle(t, NULL)]
    /\ nextEmpty' = [nextEmpty EXCEPT ![t] = NULL]
    /\ idx' = [idx EXCEPT ![t] = 0]
    /\ val' = [val EXCEPT ![t] = NULL]

\* the closure f runs on the value at address a, then with returns and the
\* guard of the scrutinee is dropped
CallF(t, a) ==
    /\ heap' = IF op[t] = "incr" THEN Store(a, Load(a) + 1) ELSE heap
    /\ ideal' = [ideal EXCEPT ![t][key[t]] = IF op[t] = "incr" THEN @ + 1 ELSE @]
    /\ Unlock(t, key[t])
    /\ Return(t)

\* binding found: read the value's address from the bound slot
HitGet(t) ==
    /\ pc[t] = "hit_get"
    /\ ReadSlot(t, idx[t], "hit_f")
    /\ UNCHANGED <<unwindVars, robotVars, entrypoint>>
    /\ UNCHANGED <<heap, kernelVars, mapInit, map, mutexVars, key, op, cur, nextEmpty,
                   idx, calls, ghostVars>>

\* f begins with a call of with on the same key: the inner call finds the map
\* made (call_once) and takes current()
NestedWith(t) ==
    /\ pc[t] = "hit_f"
    /\ SlotGet(t, 0) # NULL
    /\ pc' = [pc EXCEPT ![t] = "nested_lock"]
    /\ UNCHANGED <<unwindVars, robotVars, entrypoint>>
    /\ UNCHANGED <<heap, kernelVars, mapInit, map, mutexVars, key, op, cur, nextEmpty,
                   idx, val, calls, ghostVars>>

\* mutant: the inner call's lock returns only when nobody holds the mutex
NestedLockCheckExclusive(t) ==
    /\ pc[t] = "nested_lock"
    /\ holder[key[t]] = NoTask
    /\ Lock(t, key[t])
    /\ MapGet(map[key[t]], MkHandle(t, SlotGet(t, 0))) >= 0
    /\ pc' = [pc EXCEPT ![t] = "nested_f"]
    /\ UNCHANGED <<unwindVars, robotVars, entrypoint>>
    /\ UNCHANGED <<heap, kernelVars, mapInit, map, reentrant, key, op, cur, nextEmpty,
                   idx, val, calls, ghostVars>>

\* the inner call's scrutinee: lock the map, while the outer call's guard is
\* alive, and look the handle up; the task is bound, the slot is read
NestedLockCheck(t) ==
    /\ pc[t] = "nested_lock"
    /\ CanLock(t, key[t])
    /\ Lock(t, key[t])
    /\ MapGet(map[key[t]], MkHandle(t, SlotGet(t, 0))) >= 0
    /\ pc' = [pc EXCEPT ![t] = "nested_f"]
    /\ UNCHANGED <<unwindVars, robotVars, entrypoint>>
    /\ UNCHANGED <<heap, kernelVars, mapInit, map, reentrant, key, op, cur, nextEmpty,
                   idx, val, calls, ghostVars>>

\* the inner closure reads the value; the inner call returns and its guard is
\* dropped
NestedReturn(t) ==
    /\ pc[t] = "nested_f"
    /\ Unlock(t, key[t])
    /\ pc' = [pc EXCEPT ![t] = "hit_f_resumed"]
    /\ UNCHANGED <<unwindVars, robotVars, entrypoint>>
    /\ UNCHANGED <<heap, kernelVars, mapInit, map, reentrant, key, op, cur, nextEmpty,
                   idx, val, calls, ghostVars>>

HitF(t) ==
    /\ pc[t] \in {"hit_f", "hit_f_resumed"}
    /\ CallF(t, val[t])
    /\ UNCHANGED <<unwindVars, robotVars, entrypoint>>
    /\ UNCHANGED <<kernelVars, mapInit, map, reentrant, calls, order, bindCount, early,
                   firstVal, counterCell, raced>>

\* no binding: next_empty borrows the u32 that slot 0 points to
MissRead(t) ==
    /\ pc[t] = "miss_read"
    /\ IF SlotGet(t, 0) = NULL
       THEN /\ pc' = [pc EXCEPT ![t] = "panicked"]
            /\ nextEmpty' = nextEmpty
       ELSE /\ pc' = [pc EXCEPT ![t] = "miss_alloc"]
            /\ nextEmpty' = [nextEmpty EXCEPT ![t] = SlotGet(t, 0)]
    /\ UNCHANGED <<unwindVars, robotVars, entrypoint>>
    /\ UNCHANGED <<heap, kernelVars, mapInit, map, mutexVars, key, op, cur, idx, val,
                   calls, ghostVars>>

\* the initializer's value is leaked and stored in slot *next_empty
MissAlloc(t) ==
    /\ pc[t] = "miss_alloc"
    /\ heap' = Alloc(t, KeyInit(key[t]))
    /\ val' = [val EXCEPT ![t] = NewAddr(t)]
    /\ idx' = [idx EXCEPT ![t] = Load(nextEmpty[t])]
    /\ IF InRange(Load(nextEmpty[t]))
       THEN /\ slots' = SlotSet(t, Load(nextEmpty[t]), NewAddr(t))
            /\ pc' = [pc EXCEPT ![t] = "miss_insert"]
       ELSE /\ slots' = slots
            /\ pc' = [pc EXCEPT ![t] = "ub_set"]
    /\ ideal' = [ideal EXCEPT ![t][key[t]] = IF @ = -1 THEN KeyInit(key[t]) ELSE @]
    /\ UNCHANGED <<unwindVars, robotVars, entrypoint>>
    /\ UNCHANGED <<spawned, errno, mapInit, map, mutexVars, key, op, cur, nextEmpty,
                   calls, order, bindCount, early, firstVal, counterCell, raced>>

\* the map is locked a second time, inside the else block, and (current, *next_empty)
\* inserted; the second guard is dropped at the end of the statement
MissInsert(t) ==
    /\ pc[t] = "miss_insert"
    /\ CanLock(t, key[t])
    /\ map' = [map EXCEPT ![key[t]] = MapInsert(@, cur[t], Load(nextEmpty[t]))]
    /\ order' = [order EXCEPT ![t] = Append(@, Load(nextEmpty[t]))]
    /\ bindCount' = [bindCount EXCEPT ![t][key[t]] = @ + 1]
    /\ pc' = [pc EXCEPT ![t] = "miss_incr"]
    /\ UNCHANGED <<unwindVars, robotVars, entrypoint>>
    /\ UNCHANGED <<heap, kernelVars, mapInit, mutexVars, key, op, cur, nextEmpty, idx,
                   val, calls, ideal, early, firstVal, counterCell, raced>>

\* *current.next_free_tls_index.get() += 1
MissIncr(t) ==
    /\ pc[t] = "miss_incr"
    /\ heap' = Store(cur[t].cell, Load(cur[t].cell) + 1)
    /\ pc' = [pc EXCEPT ![t] = "miss_get"]
    /\ UNCHANGED <<unwindVars, robotVars, entrypoint>>
    /\ UNCHANGED <<kernelVars, mapInit, map, mutexVars, key, op, cur, nextEmpty, idx,
                   val, calls, ghostVars>>

\* the indices *next_empty can yield after the write through the UnsafeCell:
\* next_empty is a &u32 to the cell just written, so the read may give the
\* value seen before the write or the value after it
NextEmptyReads(t) == {idx[t], Load(nextEmpty[t])}

MissGet(t) ==
    /\ pc[t] = "miss_get"
    /\ \E i \in NextEmptyReads(t) : ReadSlot(t, i, "miss_f")
    /\ UNCHANGED <<unwindVars, robotVars, entrypoint>>
    /\ UNCHANGED <<heap, kernelVars, mapInit, map, mutexVars, key, op, cur, nextEmpty,
                   idx, calls, ghostVars>>

MissF(t) ==
    /\ pc[t] = "miss_f"
    /\ CallF(t, val[t])
    /\ firstVal' = [firstVal EXCEPT ![t][key[t]] = IF @ = NULL THEN val[t] ELSE @]
    /\ UNCHANGED <<unwindVars, robotVars, entrypoint>>
    /\ UNCHANGED <<kernelVars, mapInit, map, reentrant, calls, order, bindCount, early,
                   counterCell, raced>>

\* ------------------------------------------------- panic (handler.rs)
\* the panic handler is entered (again, when it panicked itself) and calls
\* current(), which unwraps slot 0 of the running task
PanicCurrent(t) ==
    /\ pc[t] \in {"panicked", "handler_failed"}
    /\ pc' = [pc EXCEPT ![t] = IF SlotGet(t, 0) = NULL THEN "handler_failed"
                                ELSE "handler_report"]
    /\ pc'[t] # pc[t]
    /\ UNCHANGED <<unwindVars, robotVars, entrypoint>>
    /\ UNCHANGED <<heap, kernelVars, mapInit, map, mutexVars, key, op, cur, nextEmpty,
                   idx, val, calls, ghostVars>>

\* the task's name and the panic info are formatted, printed and drawn on the
\* screen; then the handler spins in loop {}
PanicReport(t) ==
    /\ pc[t] = "handler_report"
    /\ pc' = [pc EXCEPT ![t] = "halted"]
    /\ UNCHANGED <<unwindVars, robotVars, entrypoint>>
    /\ UNCHANGED <<heap, kernelVars, mapInit, map, mutexVars, key, op, cur, nextEmpty,
                   idx, val, calls, ghostVars>>

\* ------------------------------------------------------------------ Next
Next ==
    \E t \in Tasks :
        \/ SpawnCreate(t)
        \/ \E e \in Errnos : SpawnFail(t, e)
        \/ SpawnBootstrap(t)
        \/ \E r \in DanglingReads : TaskEntry(t, r)
        \/ \E k \in Keys, o \in Ops : WithBegin(t, k, o)
        \/ Current(t)
        \/ LockCheck(t)
        \/ HitGet(t)
        \/ NestedWith(t)
        \/ NestedLockCheck(t)
        \/ NestedReturn(t)
        \/ HitF(t)
        \/ MissRead(t)
        \/ MissAlloc(t)
        \/ MissInsert(t)
        \/ MissIncr(t)
        \/ MissGet(t)
        \/ MissF(t)
        \/ PanicCurrent(t)
        \/ PanicReport(t)

Spec == Init /\ [][Next]_vars

\* ------------------------------------------ rust_eh_personality (unwind.rs)
taskVars == <<heap, slots, spawned, errno, mapInit, map, holder, depth, reentrant, pc, key, op,
              cur, nextEmpty, idx, val, calls, ideal, order, bindCount, early, firstVal,
              counterCell, raced, entrypoint>>

\* the frames the unwinder can present: the state word, the return address in
\* r15 (ARM or Thumb), the stack pointer, what r0, r1 and r12 hold from earlier
\* code, and the action the frame's LSDA decodes to
UnwindStates ==
    {a + f : a \in {US_VIRTUAL_UNWIND_FRAME, US_UNWIND_FRAME_STARTING,
                    US_UNWIND_FRAME_RESUME, US_ACTION_MASK},
             f \in {0, US_FORCE_UNWIND, US_END_OF_STACK,
                    US_FORCE_UNWIND + US_END_OF_STACK}}
IpValues == {1, 4}
SpValues == {16}
StaleValues == {3}
LpadValues == {8, 9}
EHActions ==
    {NoAction, [kind |-> "Terminate", lpad |-> 0], [kind |-> "Err", lpad |-> 0]}
    \cup {[kind |-> k, lpad |-> l] : k \in {"Cleanup", "Catch", "Filter"}, l \in LpadValues}

\* what __gnu_unwind_frame can return
NativeResults ==
    {URC_NO_REASON, URC_HANDLER_FOUND, URC_INSTALL_CONTEXT, URC_CONTINUE_UNWIND,
     URC_FAILURE}

\* the argument exception_object (a non-null pointer)
exception_object == 32

\* a & b and a | b on machine words
RECURSIVE BitAnd(_, _)
BitAnd(a, b) ==
    IF a = 0 \/ b = 0 THEN 0
    ELSE (a % 2) * (b % 2) + 2 * BitAnd(a \div 2, b \div 2)

RECURSIVE BitOr(_, _)
BitOr(a, b) ==
    IF a = 0 THEN b
    ELSE IF b = 0 THEN a
    ELSE (IF a % 2 = 1 \/ b % 2 = 1 THEN 1 ELSE 0) + 2 * BitOr(a \div 2, b \div 2)

\* _Unwind_GetGR and _Unwind_SetGR on the core registers
Unwind_GetGR(g, r) == g[r]
Unwind_SetGR(g, r, v) == [g EXCEPT ![r] = v]

\* _Unwind_GetIP: the instruction pointer without the Thumb bit
Unwind_GetIP(g) == Unwind_GetGR(g, UNWIND_IP_REG) - BitAnd(Unwind_GetGR(g, UNWIND_IP_REG), 1)

\* the width of a machine word in the model (the target's words have 32 bits,
\* more than the model checker's integers hold)
WordBits == 16

RECURSIVE Pow2(_)
Pow2(n) == IF n = 0 THEN 1 ELSE 2 * Pow2(n - 1)

\* usize::wrapping_sub
wrapping_sub(a, b) == (a - b + Pow2(WordBits)) % Pow2(WordBits)

\* _Unwind_GetIPInfo: ip_before_insn is set to 0 and _Unwind_GetIP returned
Unwind_GetIPInfo(g) == [ip |-> Unwind_GetIP(g), ip_before_insn |-> 0]

\* mutant: the instruction pointer is used as it is when it is 0
EHContextIpChecked(g) ==
    LET info == Unwind_GetIPInfo(g)
    IN  IF info.ip_before_insn # 0 \/ info.ip = 0 THEN info.ip
        ELSE wrapping_sub(info.ip, 1)

\* the ip field of the EHContext that find_eh_action builds
EHContextIp(g) ==
    LET info == Unwind_GetIPInfo(g)
    IN  IF info.ip_before_insn # 0 THEN info.ip ELSE wrapping_sub(info.ip, 1)

\* mutant: the value is stored as given
Unwind_SetIP_Plain(g, value) == Unwind_SetGR(g, UNWIND_IP_REG, value)

\* _Unwind_SetIP: the Thumb bit of the present instruction pointer is or-ed in
Unwind_SetIP(g, value) ==
    Unwind_SetGR(g, UNWIND_IP_REG, BitOr(value, BitAnd(Unwind_GetGR(g, UNWIND_IP_REG), 1)))

\* the action bits and the force flag of the state word
ActionBits == BitAnd(state, US_ACTION_MASK)
ForceUnwind == BitAnd(state, US_FORCE_UNWIND) # 0

\* the routine returns code c
PersonalityReturn(c) ==
    /\ ret' = c
    /\ upc' = "returned"

\* the unwinder calls the routine for a frame
PersonalityEntry(s, ip, sp, old, a) ==
    /\ upc = "idle"
    /\ UNCHANGED <<taskVars, robotVars>>
    /\ state' = s
    /\ gr' = [r \in Regs |-> IF r = UNWIND_IP_REG THEN ip
                             ELSE IF r = UNWIND_SP_REG THEN sp ELSE old]
    /\ entryGr' = gr'
    /\ entryPrivate5' = private5
    /\ eh_action' = a
    /\ search_phase' = FALSE
    /\ ret' = NoReturn
    /\ nativeSteps' = 0
    /\ nativeResult' = NoReturn
    /\ lsdaLookups' = 0
    /\ eh_ip' = 0
    /\ prevRet' = NoReturn
    /\ upc' = "dispatch"
    /\ UNCHANGED private5

\* the unwinder has taken the result and leaves the frame: the call's arguments
\* and locals are gone, the exception object keeps its private word
PersonalityDone ==
    /\ upc = "returned"
    /\ UNCHANGED <<taskVars, robotVars>>
    /\ upc' = "idle"
    /\ state' = US_VIRTUAL_UNWIND_FRAME
    /\ search_phase' = FALSE
    /\ gr' = [r \in Regs |-> 0]
    /\ entryGr' = gr'
    /\ entryPrivate5' = 0
    /\ eh_action' = NoAction
    /\ ret' = NoReturn
    /\ prevRet' = NoReturn
    /\ nativeSteps' = 0
    /\ nativeResult' = NoReturn
    /\ lsdaLookups' = 0
    /\ eh_ip' = 0
    /\ UNCHANGED private5

\* r15 after a landing pad was installed: the pad's address with the mode bit
LandingIps == {BitOr(l, b) : l \in LpadValues, b \in {0, 1}}

\* the unwinder calls the routine again for the frame of the last call, with
\* another state word: r13 is the frame's, r15 is the frame's return address or
\* where the last call left it, the frame's LSDA decodes as before
PersonalityReentry(s, ip, old) ==
    /\ upc = "returned"
    /\ ip \in {entryGr[UNWIND_IP_REG], gr[UNWIND_IP_REG]}
    /\ UNCHANGED <<taskVars, robotVars>>
    /\ state' = s
    /\ gr' = [r \in Regs |-> IF r = UNWIND_IP_REG THEN ip
                             ELSE IF r = UNWIND_SP_REG THEN entryGr[UNWIND_SP_REG]
                             ELSE old]
    /\ entryGr' = gr'
    /\ entryPrivate5' = private5
    /\ prevRet' = ret
    /\ search_phase' = FALSE
    /\ ret' = NoReturn
    /\ nativeSteps' = 0
    /\ nativeResult' = NoReturn
    /\ lsdaLookups' = 0
    /\ eh_ip' = 0
    /\ upc' = "dispatch"
    /\ UNCHANGED <<private5, eh_action>>

\* mutant: a frame resume is handled as a frame starting
DispatchResumeRestarts ==
    /\ upc = "dispatch"
    /\ UNCHANGED <<taskVars, robotVars>>
    /\ IF ActionBits = US_VIRTUAL_UNWIND_FRAME
       THEN /\ upc' = IF ForceUnwind THEN "continue_unwind" ELSE "stash"
            /\ search_phase' = ~ForceUnwind
            /\ ret' = ret
       ELSE IF ActionBits \in {US_UNWIND_FRAME_STARTING, US_UNWIND_FRAME_RESUME}
       THEN /\ upc' = "stash"
            /\ search_phase' = FALSE
            /\ ret' = ret
       ELSE /\ PersonalityReturn(URC_FAILURE)
            /\ search_phase' = search_phase
    /\ UNCHANGED <<state, gr, private5, eh_action, nativeSteps,
                   entryGr, entryPrivate5, nativeResult, lsdaLookups,
                   eh_ip, prevRet>>

\* mutant: the force flag of a virtual unwind frame is not looked at
DispatchIgnoresForce ==
    /\ upc = "dispatch"
    /\ UNCHANGED <<taskVars, robotVars>>
    /\ IF ActionBits = US_VIRTUAL_UNWIND_FRAME
       THEN /\ upc' = "stash"
            /\ search_phase' = TRUE
            /\ ret' = ret
       ELSE IF ActionBits = US_UNWIND_FRAME_STARTING
       THEN /\ upc' = "stash"
            /\ search_phase' = FALSE
            /\ ret' = ret
       ELSE IF ActionBits = US_UNWIND_FRAME_RESUME
       THEN /\ upc' = "continue_unwind"
            /\ search_phase' = search_phase
            /\ ret' = ret
       ELSE /\ PersonalityReturn(URC_FAILURE)
            /\ search_phase' = search_phase
    /\ UNCHANGED <<state, gr, private5, eh_action, nativeSteps,
                   entryGr, entryPrivate5, nativeResult, lsdaLookups,
                   eh_ip, prevRet>>

\* mutant: a state word with undefined action bits is taken for a resume
DispatchUndefinedResumes ==
    /\ upc = "dispatch"
    /\ UNCHANGED <<taskVars, robotVars>>
    /\ IF ActionBits = US_VIRTUAL_UNWIND_FRAME
       THEN /\ upc' = IF ForceUnwind THEN "continue_unwind" ELSE "stash"
            /\ search_phase' = ~ForceUnwind
            /\ ret' = ret
       ELSE IF ActionBits = US_UNWIND_FRAME_STARTING
       THEN /\ upc' = "stash"
            /\ search_phase' = FALSE
            /\ ret' = ret
       ELSE /\ upc' = "continue_unwind"
            /\ search_phase' = search_phase
            /\ ret' = ret
    /\ UNCHANGED <<state, gr, private5, eh_action, nativeSteps,
                   entryGr, entryPrivate5, nativeResult, lsdaLookups,
                   eh_ip, prevRet>>

\* match (state & _US_ACTION_MASK)
PersonalityDispatch ==
    /\ upc = "dispatch"
    /\ UNCHANGED <<taskVars, robotVars>>
    /\ IF ActionBits = US_VIRTUAL_UNWIND_FRAME
       THEN /\ upc' = IF ForceUnwind THEN "continue_unwind" ELSE "stash"
            /\ search_phase' = ~ForceUnwind
            /\ ret' = ret
       ELSE IF ActionBits = US_UNWIND_FRAME_STARTING
       THEN /\ upc' = "stash"
            /\ search_phase' = FALSE
            /\ ret' = ret
       ELSE IF ActionBits = US_UNWIND_FRAME_RESUME
       THEN /\ upc' = "continue_unwind"
            /\ search_phase' = search_phase
            /\ ret' = ret
       ELSE /\ PersonalityReturn(URC_FAILURE)
            /\ search_phase' = search_phase
    /\ UNCHANGED <<state, gr, private5, eh_action, nativeSteps,
                   entryGr, entryPrivate5, nativeResult, lsdaLookups,
                   eh_ip, prevRet>>

\* mutant: the exception object's address is not stashed
StashNothing ==
    /\ upc = "stash"
    /\ UNCHANGED <<taskVars, robotVars>>
    /\ upc' = "find_eh_action"
    /\ UNCHANGED <<state, search_phase, gr, private5, eh_action, ret, nativeSteps,
                   entryGr, entryPrivate5, nativeResult, lsdaLookups,
                   eh_ip, prevRet>>

\* the exception object's address is put in r12 for the LSDA accessors
Stash ==
    /\ upc = "stash"
    /\ UNCHANGED <<taskVars, robotVars>>
    /\ gr' = Unwind_SetGR(gr, UNWIND_POINTER_REG, exception_object)
    /\ upc' = "find_eh_action"
    /\ UNCHANGED <<state, search_phase, private5, eh_action, ret, nativeSteps, entryGr,
                   entryPrivate5, nativeResult, lsdaLookups,
                   eh_ip, prevRet>>

\* _Unwind_GetLanguageSpecificData(context) finds the frame's LSDA through the
\* pointer stashed in r12; through any other pointer it reads memory that is
\* not the exception object, and the decode can yield anything
LsdaDecode ==
    IF Unwind_GetGR(gr, UNWIND_POINTER_REG) = exception_object
    THEN {eh_action}
    ELSE EHActions

\* mutant: a decode error is taken for a frame without action
FindEhActionErrIsNone ==
    /\ upc = "find_eh_action"
    /\ UNCHANGED <<taskVars, robotVars>>
    /\ lsdaLookups' = lsdaLookups + 1
    /\ \E a \in LsdaDecode :
          /\ eh_action' = a
          /\ eh_ip' = EHContextIp(gr)
          /\ upc' = IF a.kind = "Err" THEN "continue_unwind"
                    ELSE IF search_phase THEN "search" ELSE "cleanup"
          /\ ret' = ret
    /\ UNCHANGED <<state, search_phase, gr, private5, nativeSteps, entryGr,
                   entryPrivate5, nativeResult, prevRet>>

\* find_eh_action(context): an Err(()) is returned as failure
FindEhAction ==
    /\ upc = "find_eh_action"
    /\ UNCHANGED <<taskVars, robotVars>>
    /\ lsdaLookups' = lsdaLookups + 1
    /\ \E a \in LsdaDecode :
          /\ eh_action' = a
          /\ eh_ip' = EHContextIp(gr)
          /\ IF a.kind = "Err"
             THEN PersonalityReturn(URC_FAILURE)
             ELSE /\ upc' = IF search_phase THEN "search" ELSE "cleanup"
                  /\ ret' = ret
    /\ UNCHANGED <<state, search_phase, gr, private5, nativeSteps, entryGr,
                   entryPrivate5, nativeResult, prevRet>>

\* mutant: the instruction pointer is cached in place of the stack pointer
SearchPhaseStoresIp ==
    /\ upc = "search"
    /\ UNCHANGED <<taskVars, robotVars>>
    /\ IF eh_action.kind \in {"None", "Cleanup"}
       THEN /\ upc' = "continue_unwind"
            /\ UNCHANGED <<ret, private5>>
       ELSE IF eh_action.kind \in {"Catch", "Filter"}
       THEN /\ private5' = Unwind_GetGR(gr, UNWIND_IP_REG)
            /\ PersonalityReturn(URC_HANDLER_FOUND)
       ELSE /\ PersonalityReturn(URC_FAILURE)
            /\ UNCHANGED private5
    /\ UNCHANGED <<state, search_phase, gr, eh_action, nativeSteps,
                   entryGr, entryPrivate5, nativeResult, lsdaLookups,
                   eh_ip, prevRet>>

\* mutant: a catch handler is installed in the search phase already
SearchPhaseInstalls ==
    /\ upc = "search"
    /\ UNCHANGED <<taskVars, robotVars>>
    /\ IF eh_action.kind \in {"None", "Cleanup"}
       THEN /\ upc' = "continue_unwind"
            /\ UNCHANGED <<ret, private5, gr>>
       ELSE IF eh_action.kind \in {"Catch", "Filter"}
       THEN /\ private5' = Unwind_GetGR(gr, UNWIND_SP_REG)
            /\ gr' = Unwind_SetIP(gr, eh_action.lpad)
            /\ PersonalityReturn(URC_HANDLER_FOUND)
       ELSE /\ PersonalityReturn(URC_FAILURE)
            /\ UNCHANGED <<private5, gr>>
    /\ UNCHANGED <<state, search_phase, eh_action, nativeSteps,
                   entryGr, entryPrivate5, nativeResult, lsdaLookups,
                   eh_ip, prevRet>>

\* mutant: a cleanup is reported as a handler in the search phase
SearchPhaseCleanupFound ==
    /\ upc = "search"
    /\ UNCHANGED <<taskVars, robotVars>>
    /\ IF eh_action.kind = "None"
       THEN /\ upc' = "continue_unwind"
            /\ UNCHANGED <<ret, private5>>
       ELSE IF eh_action.kind \in {"Cleanup", "Catch", "Filter"}
       THEN /\ private5' = Unwind_GetGR(gr, UNWIND_SP_REG)
            /\ PersonalityReturn(URC_HANDLER_FOUND)
       ELSE /\ PersonalityReturn(URC_FAILURE)
            /\ UNCHANGED private5
    /\ UNCHANGED <<state, search_phase, gr, eh_action, nativeSteps,
                   entryGr, entryPrivate5, nativeResult, lsdaLookups,
                   eh_ip, prevRet>>

\* if search_phase { match eh_action { ... } }
SearchPhase ==
    /\ upc = "search"
    /\ UNCHANGED <<taskVars, robotVars>>
    /\ IF eh_action.kind \in {"None", "Cleanup"}
       THEN /\ upc' = "continue_unwind"
            /\ UNCHANGED <<ret, private5>>
       ELSE IF eh_action.kind \in {"Catch", "Filter"}
       THEN /\ private5' = Unwind_GetGR(gr, UNWIND_SP_REG)
            /\ PersonalityReturn(URC_HANDLER_FOUND)
       ELSE /\ PersonalityReturn(URC_FAILURE)
            /\ UNCHANGED private5
    /\ UNCHANGED <<state, search_phase, gr, eh_action, nativeSteps,
                   entryGr, entryPrivate5, nativeResult, lsdaLookups,
                   eh_ip, prevRet>>

\* mutant: the second data register is left as it was
CleanupPhaseSkipsR1 ==
    /\ upc = "cleanup"
    /\ UNCHANGED <<taskVars, robotVars>>
    /\ IF eh_action.kind = "None"
       THEN /\ upc' = "continue_unwind"
            /\ UNCHANGED <<ret, gr>>
       ELSE IF eh_action.kind = "Filter" /\ ForceUnwind
       THEN /\ upc' = "continue_unwind"
            /\ UNCHANGED <<ret, gr>>
       ELSE IF eh_action.kind \in {"Cleanup", "Catch", "Filter"}
       THEN /\ gr' = Unwind_SetIP(
                        Unwind_SetGR(gr, UNWIND_DATA_REG[1], exception_object),
                        eh_action.lpad)
            /\ PersonalityReturn(URC_INSTALL_CONTEXT)
       ELSE /\ PersonalityReturn(URC_FAILURE)
            /\ UNCHANGED gr
    /\ UNCHANGED <<state, search_phase, private5, eh_action, nativeSteps, entryGr,
                   entryPrivate5, nativeResult, lsdaLookups,
                   eh_ip, prevRet>>

\* mutant: a filter is never installed
CleanupPhaseFilterContinues ==
    /\ upc = "cleanup"
    /\ UNCHANGED <<taskVars, robotVars>>
    /\ IF eh_action.kind \in {"None", "Filter"}
       THEN /\ upc' = "continue_unwind"
            /\ UNCHANGED <<ret, gr>>
       ELSE IF eh_action.kind \in {"Cleanup", "Catch"}
       THEN /\ gr' = Unwind_SetIP(
                        Unwind_SetGR(
                            Unwind_SetGR(gr, UNWIND_DATA_REG[1], exception_object),
                            UNWIND_DATA_REG[2], NULL),
                        eh_action.lpad)
            /\ PersonalityReturn(URC_INSTALL_CONTEXT)
       ELSE /\ PersonalityReturn(URC_FAILURE)
            /\ UNCHANGED gr
    /\ UNCHANGED <<state, search_phase, private5, eh_action, nativeSteps,
                   entryGr, entryPrivate5, nativeResult, lsdaLookups,
                   eh_ip, prevRet>>

\* mutant: a filter is installed under a forced unwind as well
CleanupPhaseNoSkip ==
    /\ upc = "cleanup"
    /\ UNCHANGED <<taskVars, robotVars>>
    /\ IF eh_action.kind = "None"
       THEN /\ upc' = "continue_unwind"
            /\ UNCHANGED <<ret, gr>>
       ELSE IF eh_action.kind \in {"Cleanup", "Catch", "Filter"}
       THEN /\ gr' = Unwind_SetIP(
                        Unwind_SetGR(
                            Unwind_SetGR(gr, UNWIND_DATA_REG[1], exception_object),
                            UNWIND_DATA_REG[2], NULL),
                        eh_action.lpad)
            /\ PersonalityReturn(URC_INSTALL_CONTEXT)
       ELSE /\ PersonalityReturn(URC_FAILURE)
            /\ UNCHANGED gr
    /\ UNCHANGED <<state, search_phase, private5, eh_action, nativeSteps, entryGr,
                   entryPrivate5, nativeResult, lsdaLookups,
                   eh_ip, prevRet>>

\* else { match eh_action { ... } }
CleanupPhase ==
    /\ upc = "cleanup"
    /\ UNCHANGED <<taskVars, robotVars>>
    /\ IF eh_action.kind = "None"
       THEN /\ upc' = "continue_unwind"
            /\ UNCHANGED <<ret, gr>>
       ELSE IF eh_action.kind = "Filter" /\ ForceUnwind
       THEN /\ upc' = "continue_unwind"
            /\ UNCHANGED <<ret, gr>>
       ELSE IF eh_action.kind \in {"Cleanup", "Catch", "Filter"}
       THEN /\ gr' = Unwind_SetIP(
                        Unwind_SetGR(
                            Unwind_SetGR(gr, UNWIND_DATA_REG[1], exception_object),
                            UNWIND_DATA_REG[2], NULL),
                        eh_action.lpad)
            /\ PersonalityReturn(URC_INSTALL_CONTEXT)
       ELSE /\ PersonalityReturn(URC_FAILURE)
            /\ UNCHANGED gr
    /\ UNCHANGED <<state, search_phase, private5, eh_action, nativeSteps, entryGr,
                   entryPrivate5, nativeResult, lsdaLookups,
                   eh_ip, prevRet>>

\* mutant: the native step's reason code is returned as it is
ContinueUnwindPassThrough(r) ==
    /\ upc = "continue_unwind"
    /\ UNCHANGED <<taskVars, robotVars>>
    /\ nativeSteps' = nativeSteps + 1
    /\ nativeResult' = r
    /\ PersonalityReturn(IF r = URC_NO_REASON THEN URC_CONTINUE_UNWIND ELSE r)
    /\ UNCHANGED <<state, search_phase, gr, private5, eh_action, entryGr, entryPrivate5,
                   lsdaLookups, eh_ip, prevRet>>

\* continue_unwind: one step of the native frame unwinder, its result translated
ContinueUnwind(r) ==
    /\ upc = "continue_unwind"
    /\ UNCHANGED <<taskVars, robotVars>>
    /\ nativeSteps' = nativeSteps + 1
    /\ nativeResult' = r
    /\ PersonalityReturn(IF r = URC_NO_REASON THEN URC_CONTINUE_UNWIND ELSE URC_FAILURE)
    /\ UNCHANGED <<state, search_phase, gr, private5, eh_action, entryGr, entryPrivate5,
                   lsdaLookups, eh_ip, prevRet>>

NextUnwind ==
    \/ \E s \in UnwindStates, ip \in IpValues, sp \in SpValues, old \in StaleValues,
          a \in EHActions : PersonalityEntry(s, ip, sp, old, a)
    \/ \E s \in UnwindStates, ip \in IpValues \cup LandingIps, old \in StaleValues :
          PersonalityReentry(s, ip, old)
    \/ PersonalityDone
    \/ PersonalityDispatch
    \/ Stash
    \/ FindEhAction
    \/ SearchPhase
    \/ CleanupPhase
    \/ \E r \in NativeResults : ContinueUnwind(r)

SpecUnwind == Init /\ [][NextUnwind]_vars


\* ------------------------------------- kernel entry points (async_robot!)
MaxEntries == 3      \* kernel entry points called, initialize included

\* the robot types: the Robot of examples/basic.rs, whose opcontrol panics with
\* a local of type MyStruct live, and a robot whose methods return Ok(())
RobotTypes == {"Basic", "Quiet"}

\* the kernel task that runs an entry point is any of the tasks
KernelFrame ==
    UNCHANGED <<entrypoint, spawned, errno, mapInit, map, mutexVars, key, op, cur, nextEmpty, idx, val,
                calls, ghostVars, unwindVars>>

\* initialize(): __init_main() where the macro calls it, then ROBOT = Some(..)
Initialize(t, r, boot) ==
    /\ rpc = "kernel"
    /\ Len(log) < MaxEntries
    /\ ROBOT = "None"
    /\ ROBOT' = r
    /\ log' = Append(log, <<"initialize", "none">>)
    /\ IF boot
       THEN /\ heap' = Alloc(t, CounterInit)
            /\ slots' = SlotSet(t, 0, NewAddr(t))
       ELSE UNCHANGED <<heap, slots>>
    /\ KernelFrame
    /\ UNCHANGED <<pc, entry, method, rpc, sLive>>

\* an exported entry point e that passes ROBOT to the method m of AsyncRobot;
\* expect panics in task t when initialize has not stored the robot
EntryPoint(t, e, m) ==
    /\ entry' = e
    /\ IF ROBOT = "None"
       THEN /\ pc' = [pc EXCEPT ![t] = "panicked"]
            /\ rpc' = "panic"
            /\ method' = method
       ELSE /\ pc' = pc
            /\ rpc' = "method"
            /\ method' = m
    /\ KernelFrame
    /\ UNCHANGED <<heap, slots, ROBOT, sLive, log>>

\* the kernel can call an entry point: none is running, and the bound on calls
KernelCalls == rpc = "kernel" /\ Len(log) < MaxEntries

opcontrol(t) ==
    /\ KernelCalls
    /\ EntryPoint(t, "opcontrol", "opcontrol")

autonomous(t) ==
    /\ KernelCalls
    /\ EntryPoint(t, "autonomous", "opcontrol")

disabled(t) ==
    /\ KernelCalls
    /\ EntryPoint(t, "disabled", "opcontrol")

competition_initialize(t) ==
    /\ KernelCalls
    /\ EntryPoint(t, "competition_initialize", "opcontrol")

\* the method's future panics: Robot::opcontrol of the example
Panics(r, m) == r = "Basic" /\ m = "opcontrol"

\* println!("Yo"); let s = MyStruct {};
MethodLocal ==
    /\ rpc = "method"
    /\ Panics(ROBOT, method)
    /\ sLive' = TRUE
    /\ rpc' = "local"
    /\ KernelFrame
    /\ UNCHANGED <<heap, slots, pc, ROBOT, entry, method, log>>

\* panic!("{:?}", "Panicked."): the panic handler is entered in task t
MethodPanic(t) ==
    /\ rpc = "local"
    /\ pc' = [pc EXCEPT ![t] = "panicked"]
    /\ rpc' = "panic"
    /\ KernelFrame
    /\ UNCHANGED <<heap, slots, ROBOT, entry, method, sLive, log>>

\* the method returns Ok(()), unwrap passes and the entry point returns
MethodReturn ==
    /\ rpc = "method"
    /\ ~Panics(ROBOT, method)
    /\ log' = Append(log, <<entry, method>>)
    /\ entry' = "none"
    /\ method' = "none"
    /\ rpc' = "kernel"
    /\ KernelFrame
    /\ UNCHANGED <<heap, slots, pc, ROBOT, sLive>>

NextRobot ==
    \/ \E t \in Tasks, r \in RobotTypes, boot \in BOOLEAN : Initialize(t, r, boot)
    \/ \E t \in Tasks : opcontrol(t)
    \/ \E t \in Tasks : autonomous(t)
    \/ \E t \in Tasks : disabled(t)
    \/ \E t \in Tasks : competition_initialize(t)
    \/ MethodLocal
    \/ \E t \in Tasks : MethodPanic(t)
    \/ MethodReturn
    \/ \E t \in Tasks : PanicCurrent(t)
    \/ \E t \in Tasks : PanicReport(t)

SpecRobot == Init /\ [][NextRobot]_vars


\* ---------------------------------------------------------------- claims
Entries(t, k) == {e \in map[k] : e.h.task = t}
InF(t) == pc[t] \in {"hit_f", "miss_f"}
InPanic(t) == pc[t] \in {"panicked", "handler_failed", "handler_report", "halted"}
Halted(t) == InPanic(t) \/ pc[t] \in {"ub_get", "ub_set", "ub_entry"}

\* C1: after two tasks raced on their first access to a key, the key's map holds
\* exactly one entry for each task whose call has returned, no (key, task) pair
\* was ever bound twice, and the index a task uses on the binding-found path is
\* the index recorded in its own entry, which it put there itself.
RaceSafety ==
    \A k \in Keys : \A t \in Tasks :
        /\ Cardinality(Entries(t, k)) <= 1
        /\ bindCount[t][k] <= 1
        /\ Cardinality(Entries(t, k)) = bindCount[t][k]
        /\ (ideal[t][k] # -1 /\ pc[t] = "idle") => Cardinality(Entries(t, k)) = 1
        /\ (pc[t] = "hit_get" /\ key[t] = k) =>
              /\ Entries(t, k) = {[h |-> e.h, idx |-> idx[t]] : e \in Entries(t, k)}
              /\ Entries(t, k) # {}

RaceSafetyWitness ==
    \E k \in Keys :
        /\ raced[k]
        /\ \A t \in Tasks : pc[t] = "idle" /\ Cardinality(Entries(t, k)) = 1

\* C2: a later call of with by the same task on the same key passes f the object
\* the first call passed, holding the value the earlier calls left in it.
BindingStability ==
    \A t \in Tasks :
        pc[t] = "hit_f" =>
            /\ val[t] = firstVal[t][key[t]]
            /\ Load(val[t]) = ideal[t][key[t]]

\* C3: the value a task's closure receives was leaked for that task and for no
\* other, and the first call of a task on a key sees the initializer's value.
TaskIsolation ==
    \A t \in Tasks :
        /\ InF(t) => val[t] % Stride = t
        /\ pc[t] = "miss_f" => Load(val[t]) = KeyInit(key[t])
        /\ \A k \in Keys : \A u \in Tasks \ {t} :
              firstVal[t][k] # NULL => firstVal[t][k] # firstVal[u][k]

TaskIsolationWitness ==
    \E k \in Keys :
        /\ \A t \in Tasks : firstVal[t][k] # NULL
        /\ \E t \in Tasks : \E u \in Tasks \ {t} :
              /\ pc[t] = "hit_f" /\ key[t] = k
              /\ Load(val[t]) # Load(firstVal[u][k])

\* C4: the slot indices recorded for a task's keys, in order of first access, are
\* strictly increasing and all above the reserved slot 0.
SlotMonotonicity ==
    \A t \in Tasks :
        /\ \A i \in 1..Len(order[t]) : order[t][i] > 0
        /\ \A i \in 1..Len(order[t]) : \A j \in 1..Len(order[t]) :
              i < j => order[t][i] < order[t][j]

\* the calls of with that task t has finished
Finished(t) == IF pc[t] = "idle" THEN calls[t] ELSE calls[t] - 1

\* task t was bootstrapped before its first access and has so far only called
\* KEY1.with(|v| *v += 1)
OnlyIncrementsKey1(t) ==
    /\ ~early[t]
    /\ ideal[t][2] = -1
    /\ key[t] = 1
    /\ pc[t] # "idle" => op[t] = "incr"
    /\ ideal[t][1] \in {-1, KeyInit(1), KeyInit(1) + Finished(t)}
    /\ ideal[t][1] = KeyInit(1) => (Finished(t) = 0)

\* task t is at the second lock of the first-access path, holds the mutex, and
\* lock does not return for the holder
StuckOnRelock(t) == pc[t] = "miss_insert" /\ holder[key[t]] = t /\ ~reentrant

\* C5: a task that only calls KEY1.with(increment) has every call return, and the
\* closure of its n-th call finds n-1 in the value, whatever the other task does.
EndToEnd ==
    \A t \in Tasks :
        OnlyIncrementsKey1(t) =>
            /\ ~Halted(t)
            /\ ~StuckOnRelock(t)
            /\ InF(t) => Load(val[t]) = KeyInit(1) + calls[t] - 1

\* C6: slot 0 of a bootstrapped task holds the address of its counter cell.
SlotZeroReserved ==
    \A t \in Tasks : spawned[t] = "done" => slots[t][0] = counterCell[t]

\* C7: current() in a spawned task never finds slot 0 empty.
BootstrapPrecedesAccess == \A t \in Tasks : ~early[t]

\* C8: no task asks for the key's mutex while it holds it, and a call of with by
\* a task bootstrapped before the call does not end in a panic.
WithAlwaysReturns ==
    \A t \in Tasks :
        /\ pc[t] \in {"lock", "miss_insert"} => holder[key[t]] # t
        /\ InPanic(t) => early[t]

\* C9: the kernel's slot calls are never made with an index out of range.
SlotIndexInRange == \A t \in Tasks : pc[t] \notin {"ub_get", "ub_set"}

CallOf(w, k) == upc # "idle" /\ state = w /\ eh_action.kind = k
Returned == upc = "returned"

\* C12 as stated: called in the search phase for a frame that decodes to Cleanup,
\* the routine returns continue, and leaves the handler cache as it was.
SearchPhaseCleanupContinues ==
    CallOf(US_VIRTUAL_UNWIND_FRAME, "Cleanup") =>
        /\ Returned => ret = URC_CONTINUE_UNWIND
        /\ private5 = entryPrivate5

\* C12 amended: called in the search phase for a frame that decodes to Cleanup,
\* the routine makes one native frame-unwind step and returns continue, or
\* failure when that step fails; it never returns handler found and leaves the
\* handler cache as it was.
SearchPhaseCleanupSteps ==
    CallOf(US_VIRTUAL_UNWIND_FRAME, "Cleanup") =>
        /\ Returned => ret \in {URC_CONTINUE_UNWIND, URC_FAILURE} /\ nativeSteps = 1
        /\ ret # URC_HANDLER_FOUND
        /\ private5 = entryPrivate5

SearchPhaseCleanupWitness ==
    /\ CallOf(US_VIRTUAL_UNWIND_FRAME, "Cleanup")
    /\ Returned
    /\ ret = URC_CONTINUE_UNWIND
    /\ entryPrivate5 # Unwind_GetGR(gr, UNWIND_SP_REG)

\* n with its lowest bit replaced by bit b
WithLowBit(n, b) == (n - (n % 2)) + b

InstallRegsUntouched ==
    \A r \in {UNWIND_DATA_REG[1], UNWIND_DATA_REG[2], UNWIND_IP_REG} : gr[r] = entryGr[r]

\* C14 as stated: called with UnwindFrameStarting and the force flag for a frame
\* that decodes to Filter, the routine makes one native frame-unwind step and
\* returns continue, with r0, r1 and r15 as they were on entry.
ForcedFilterContinues ==
    CallOf(US_UNWIND_FRAME_STARTING + US_FORCE_UNWIND, "Filter") =>
        /\ Returned => ret = URC_CONTINUE_UNWIND /\ nativeSteps = 1
        /\ InstallRegsUntouched

\* C14 amended: called with UnwindFrameStarting and the force flag for a frame
\* that decodes to Filter, the routine makes one native frame-unwind step and
\* returns continue, or failure when that step fails; it never returns install
\* context, and r0, r1 and r15 are as they were on entry.
ForcedFilterSkipped ==
    CallOf(US_UNWIND_FRAME_STARTING + US_FORCE_UNWIND, "Filter") =>
        /\ Returned => ret \in {URC_CONTINUE_UNWIND, URC_FAILURE} /\ nativeSteps = 1
        /\ ret # URC_INSTALL_CONTEXT
        /\ InstallRegsUntouched

ForcedFilterWitness ==
    /\ CallOf(US_UNWIND_FRAME_STARTING + US_FORCE_UNWIND, "Filter")
    /\ Returned
    /\ ret = URC_CONTINUE_UNWIND
    /\ nativeSteps = 1

\* C15: the panic handler finds the current task, reports and halts in its
\* loop; it does not panic itself.
PanicHandlerReports == \A t \in Tasks : pc[t] # "handler_failed"

\* ---------------------------------------- further claims on task-local storage
\* C16: once a key's map holds an entry for a task, no step of any task changes
\* or removes that entry, nor adds a second entry for the task.
BindingImmutable ==
    [][\A k \in Keys : \A t \in Tasks :
          Entries(t, k) # {} => Entries(t, k)' = Entries(t, k)]_vars

BindingImmutableWitness ==
    \E t \in Tasks : \E u \in Tasks \ {t} : \E k \in Keys :
        /\ Entries(t, k) # {}
        /\ Entries(u, k) # {}
        /\ key[t] # k
        /\ pc[t] = "miss_incr"

\* task b takes a step of the first-access path of with
FirstAccessStep(b) ==
    /\ pc[b] \in {"miss_read", "miss_alloc", "miss_insert", "miss_incr", "miss_get", "miss_f"}
    /\ pc'[b] # pc[b]

\* the leaked cells (the counter cell among them), the kernel slots and the map
\* entries of task a are left as they are
TaskUntouched(a) ==
    /\ heap'[a] = heap[a]
    /\ slots'[a] = slots[a]
    /\ \A k \in Keys : Entries(a, k)' = Entries(a, k)

\* the index a task's n-th key was given is the same for every task
IndexByCount(o) ==
    \A t \in Tasks : \A u \in Tasks :
        \A n \in 1..Len(o[t]) : n <= Len(o[u]) => o[t][n] = o[u][n]

\* C17: a step of task b's first access leaves every other task's counter, slots
\* and map entries unchanged, and the slot index a task is given for its n-th
\* key depends on n alone.
SlotNumberingTaskLocal ==
    [][/\ \A b \in Tasks : FirstAccessStep(b) => \A a \in Tasks \ {b} : TaskUntouched(a)
       /\ IndexByCount(order')]_vars

\* the handles held in the state: the one spawn returned for each task, the
\* locals `current`, and the keys stored in the maps
SpawnHandle(t) == MkHandle(t, counterCell[t])
HandlesInUse ==
    {SpawnHandle(t) : t \in Tasks} \cup {cur[t] : t \in Tasks}
    \cup UNION {{e.h : e \in map[k]} : k \in Keys}

SpawnFailureTyped ==
    /\ [](\A t \in Tasks :
            /\ errno[t] = "ENOMEM" => spawned[t] = "TCBNotCreated"
            /\ spawned[t] = "TCBNotCreated" =>
                  /\ errno[t] = "ENOMEM"
                  /\ counterCell[t] = NULL
                  /\ \A i \in SlotIdx : slots[t][i] = NULL)
    /\ [][\A t \in Tasks :
            (spawned'[t] = "TCBNotCreated" /\ spawned[t] # "TCBNotCreated") =>
                slots' = slots /\ heap' = heap]_vars

SpawnFailureTypedWitness ==
    \E t \in Tasks : \E u \in Tasks \ {t} :
        /\ spawned[t] = "TCBNotCreated"
        /\ spawned[u] = "done"
        /\ slots[u][0] # NULL

\* ------------------------------------------------- claims on the entry points
\* C11: a task that panicked with the local s live comes to its halt only after
\* unwinding has called the personality routine and the destructor of s has run.
PanicRunsDestructors ==
    \A t \in Tasks :
        (pc[t] = "halted" /\ Panics(ROBOT, method)) => ~sLive /\ upc # "idle"

\* the AsyncRobot method that belongs to an entry point
MethodOf(e) ==
    CASE e = "opcontrol" -> "opcontrol"
      [] e = "autonomous" -> "auto"
      [] e = "disabled" -> "disabled"
      [] e = "competition_initialize" -> "comp_init"
      [] OTHER -> "none"

\* C20: an entry point runs the robot's method that belongs to it, and runs it
\* only when initialize has stored the robot.
CompetitionDispatch ==
    /\ method # "none" => method = MethodOf(entry) /\ ROBOT # "None"
    /\ \A i \in 1..Len(log) : log[i][2] = MethodOf(log[i][1])

\* ---- C21 ----
\* a key no task has called with on: no map, no lock, no binding, no entry
KeyUntouched(k) ==
    /\ map[k] = {}
    /\ holder[k] = NoTask
    /\ \A t \in Tasks :
         bindCount[t][k] = 0 /\ ~(pc[t] \notin {"idle", "ub_entry"} /\ key[t] = k)

\* the step is the begin of a call of with on k
BeginsWith(k) == \E t \in Tasks : pc[t] = "idle" /\ pc'[t] = "current" /\ key'[t] = k

\* C21: a declared key has no map, no binding and no lock until some task calls
\* with on it; the map is made in the first call of with on the key and in no
\* other step, and once made it is never made again: later calls, also by
\* another task that has not reached its own first access yet, leave the map
\* and its entries in place
MapCreatedOnce ==
    /\ [](\A k \in Keys : ~mapInit[k] => KeyUntouched(k))
    /\ [][\A k \in Keys :
            /\ mapInit[k] => mapInit'[k] /\ map[k] \subseteq map'[k]
            /\ ~mapInit[k] /\ mapInit'[k] => BeginsWith(k) /\ map'[k] = {}
            /\ BeginsWith(k) => mapInit'[k]]_vars

\* two tasks are in their first call of with on the same key at once, the
\* one has bound its value already and the other has not reached the check
MapCreatedOnceWitness ==
    \E k \in Keys : \E t, u \in Tasks :
        /\ t # u
        /\ mapInit[k]
        /\ key[t] = k /\ key[u] = k
        /\ calls[t] = 1 /\ calls[u] = 1
        /\ pc[t] = "miss_f"
        /\ pc[u] \in {"current", "lock"}
        /\ map[k] # {}

\* ---- C22 ----
\* the steps of a first access, after the check found no entry: the counter is
\* read, the value stored in the kernel slot, the entry inserted, the counter
\* incremented
FirstAccessSection == {"miss_read", "miss_alloc", "miss_insert", "miss_incr"}

\* the positions of a call of with after its check of the map
PastCheck == FirstAccessSection \cup {"miss_get", "miss_f", "hit_get", "hit_f"}

\* C22: from the check that found no entry until the counter is incremented the
\* task holds the key's mutex; no other task is past its own check on that key,
\* and the key's map changes in that stretch only by the task's own insert
FirstAccessAtomic ==
    /\ [](\A t \in Tasks : pc[t] \in FirstAccessSection =>
            /\ holder[key[t]] = t
            /\ \A u \in Tasks \ {t} : key[u] = key[t] => pc[u] \notin PastCheck)
    /\ [][\A t \in Tasks : pc[t] \in FirstAccessSection =>
            /\ \A u \in Tasks \ {t} :
                 pc[u] = "lock" /\ key[u] = key[t] => pc'[u] = "lock"
            /\ map'[key[t]] # map[key[t]] =>
                 /\ pc[t] = "miss_insert" /\ pc'[t] = "miss_incr"
                 /\ map'[key[t]] = MapInsert(map[key[t]], cur[t], Load(nextEmpty[t]))]_vars

\* a task has inserted its entry and is about to increment its counter while
\* another task without an entry waits at the check of the same key
FirstAccessAtomicWitness ==
    \E t \in Tasks : \E u \in Tasks \ {t} :
        /\ pc[t] = "miss_incr"
        /\ pc[u] = "lock"
        /\ key[u] = key[t]
        /\ Entries(u, key[u]) = {}
        /\ Entries(t, key[t]) # {}

\* ---- C23 ----
\* C23: inside a call of with, after current() has returned, the handle names
\* the running task and the counter cell that spawn_inner allocated for it
CurrentOwnCell ==
    \A t \in Tasks :
        pc[t] \in {"lock"} \cup PastCheck =>
            /\ cur[t].task = t
            /\ cur[t].cell = counterCell[t]
            /\ counterCell[t] # NULL

\* ---- C24 ----
\* the number of keys bound for task t
RECURSIVE BoundKeys(_, _)
BoundKeys(t, K) ==
    IF K = {} THEN 0
    ELSE LET k == CHOOSE x \in K : TRUE
         IN  (IF Entries(t, k) # {} THEN 1 ELSE 0) + BoundKeys(t, K \ {k})

\* C24: between calls of with, the counter cell that spawn_inner allocated for
\* a task holds the initial value plus the number of keys bound for the task
CounterAccounting ==
    \A t \in Tasks :
        spawned[t] = "done" /\ pc[t] = "idle" =>
            Load(counterCell[t]) = CounterInit + BoundKeys(t, Keys)

\* ---- C25 ----
\* the routine has been entered and not yet left the model's view of the call
InCall == upc # "idle"

\* the state words that are answered without the LSDA
SkipsLsda ==
    \/ ActionBits = US_VIRTUAL_UNWIND_FRAME /\ ForceUnwind
    \/ ActionBits = US_UNWIND_FRAME_RESUME

\* what the routine itself has written in this call: nothing
WritesNothing == gr = entryGr /\ private5 = entryPrivate5

\* C25: entered with a virtual unwind frame and the force flag, or with a frame
\* resume, the routine makes exactly one native frame-unwind step, returns
\* continue when that step gave no reason and failure otherwise, never looks
\* the LSDA up and writes no context register and no exception-object field
DispatchWithoutLsda ==
    (InCall /\ SkipsLsda) =>
        /\ upc \in {"dispatch", "continue_unwind", "returned"}
        /\ lsdaLookups = 0
        /\ WritesNothing
        /\ IF Returned
           THEN /\ nativeSteps = 1
                /\ nativeResult \in NativeResults
                /\ ret = IF nativeResult = URC_NO_REASON
                         THEN URC_CONTINUE_UNWIND ELSE URC_FAILURE
           ELSE nativeSteps = 0

\* a forced virtual unwind of a frame whose LSDA has a catch handler: the
\* native step failed and the routine returned failure
DispatchWithoutLsdaWitness ==
    /\ Returned
    /\ ActionBits = US_VIRTUAL_UNWIND_FRAME /\ ForceUnwind
    /\ eh_action.kind = "Catch"
    /\ nativeResult = URC_FAILURE
    /\ ret = URC_FAILURE

\* ---- C26 ----
\* C26: a state word whose action bits are none of virtual unwind frame, frame
\* starting and frame resume makes the routine return failure, with no native
\* step, no LSDA lookup and no write, whatever its other flag bits are
UndefinedStateFails ==
    (InCall /\ ActionBits \notin {US_VIRTUAL_UNWIND_FRAME, US_UNWIND_FRAME_STARTING,
                                  US_UNWIND_FRAME_RESUME}) =>
        /\ upc \in {"dispatch", "returned"}
        /\ Returned => ret = URC_FAILURE
        /\ nativeSteps = 0
        /\ lsdaLookups = 0
        /\ WritesNothing

\* undefined action bits with the force and end-of-stack flags set, for a
\* frame with a cleanup: the routine has returned
UndefinedStateFailsWitness ==
    /\ Returned
    /\ state = US_ACTION_MASK + US_FORCE_UNWIND + US_END_OF_STACK
    /\ eh_action.kind = "Cleanup"
    /\ ret = URC_FAILURE

\* ---- C27 ----
\* the call is a search-phase call: a virtual unwind frame without the force flag
SearchCall == InCall /\ ActionBits = US_VIRTUAL_UNWIND_FRAME /\ ~ForceUnwind

\* the call is a cleanup-phase call: a frame starting
CleanupCall == InCall /\ ActionBits = US_UNWIND_FRAME_STARTING

\* C27: in the search phase, for a frame that decodes to Catch or Filter, the
\* routine stores the stack pointer (r13) in private word 5 of the exception
\* object and returns handler found, and makes no native step
SearchHandlerFound ==
    (SearchCall /\ eh_action.kind \in {"Catch", "Filter"}) =>
        /\ nativeSteps = 0
        /\ upc # "continue_unwind"
        /\ Unwind_GetGR(gr, UNWIND_SP_REG) = entryGr[UNWIND_SP_REG]
        /\ IF Returned
           THEN /\ ret = URC_HANDLER_FOUND
                /\ private5 = Unwind_GetGR(gr, UNWIND_SP_REG)
           ELSE private5 = entryPrivate5

\* a filter found in the search phase: the stack pointer has replaced what
\* private word 5 held
SearchHandlerFoundWitness ==
    /\ SearchCall
    /\ Returned
    /\ eh_action.kind = "Filter"
    /\ ret = URC_HANDLER_FOUND
    /\ private5 = entryGr[UNWIND_SP_REG]
    /\ private5 # entryPrivate5

\* ---- C28 ----
\* C28: whenever the routine returns install context the call was a cleanup
\* phase call for Cleanup, Catch, or Filter without the force flag; r0 holds the
\* exception object's address, r1 holds null, and no native step was made
InstallWritesDataRegs ==
    (InCall /\ Returned /\ ret = URC_INSTALL_CONTEXT) =>
        /\ CleanupCall
        /\ \/ eh_action.kind \in {"Cleanup", "Catch"}
           \/ eh_action.kind = "Filter" /\ ~ForceUnwind
        /\ Unwind_GetGR(gr, UNWIND_DATA_REG[1]) = exception_object
        /\ Unwind_GetGR(gr, UNWIND_DATA_REG[2]) = NULL
        /\ nativeSteps = 0

\* a cleanup is installed under a forced unwind; both data registers held
\* other values on entry
InstallWritesDataRegsWitness ==
    /\ CleanupCall /\ ForceUnwind
    /\ Returned
    /\ ret = URC_INSTALL_CONTEXT
    /\ eh_action.kind = "Cleanup"
    /\ entryGr[UNWIND_DATA_REG[1]] # exception_object
    /\ entryGr[UNWIND_DATA_REG[2]] # NULL

\* ---- C29 ----
\* the registers and the exception-object field that a handler is reported in
HandlerStateUntouched ==
    /\ Unwind_GetGR(gr, UNWIND_DATA_REG[1]) = entryGr[UNWIND_DATA_REG[1]]
    /\ Unwind_GetGR(gr, UNWIND_DATA_REG[2]) = entryGr[UNWIND_DATA_REG[2]]
    /\ Unwind_GetGR(gr, UNWIND_IP_REG) = entryGr[UNWIND_IP_REG]
    /\ private5 = entryPrivate5

\* C29: in a search-phase or cleanup-phase call whose decode fails or yields
\* Terminate the routine returns failure in that call: no native step, one
\* decode only, and no write to r0, r1, r15 or private word 5
DecodeFailureFatal ==
    ((SearchCall \/ CleanupCall) /\ eh_action.kind \in {"Err", "Terminate"}) =>
        /\ Returned => ret = URC_FAILURE
        /\ upc # "continue_unwind"
        /\ nativeSteps = 0
        /\ lsdaLookups <= 1
        /\ Returned => lsdaLookups = 1
        /\ HandlerStateUntouched

\* a decode error in the cleanup phase: the routine has returned failure
DecodeFailureFatalWitness ==
    /\ CleanupCall
    /\ Returned
    /\ eh_action.kind = "Err"
    /\ lsdaLookups = 1
    /\ ret = URC_FAILURE

\* ---- C30 ----
\* C30: the LSDA is looked up only with the exception object's address in r12,
\* written there by the routine earlier in the same call; a call that skips the
\* LSDA, or fails on its state word, leaves r12 as it was on entry
StashBeforeDecode ==
    /\ [](InCall =>
            /\ (upc \in {"find_eh_action", "search", "cleanup"} \/ lsdaLookups > 0) =>
                   Unwind_GetGR(gr, UNWIND_POINTER_REG) = exception_object
            /\ (~SearchCall /\ ~CleanupCall) =>
                   /\ lsdaLookups = 0
                   /\ Unwind_GetGR(gr, UNWIND_POINTER_REG) = entryGr[UNWIND_POINTER_REG])
    /\ [][lsdaLookups' > lsdaLookups =>
            /\ Unwind_GetGR(gr, UNWIND_POINTER_REG) = exception_object
            /\ eh_action' = eh_action]_vars

\* the LSDA has been looked up in a call that found r12 holding another value
StashBeforeDecodeWitness ==
    /\ SearchCall
    /\ upc = "search"
    /\ lsdaLookups = 1
    /\ eh_action.kind = "None"
    /\ Unwind_GetGR(gr, UNWIND_POINTER_REG) = exception_object
    /\ entryGr[UNWIND_POINTER_REG] # exception_object

\* ---- C31 ----
\* C31: continue_unwind makes one native frame-unwind step and returns continue
\* when the step gave no reason and failure for every other reason code; a
\* return that followed a native step is never handler found or install
\* context, and continue is returned on no other path
NativeStepTranslation ==
    /\ [](InCall =>
            /\ upc = "continue_unwind" => nativeSteps = 0
            /\ (Returned /\ nativeSteps > 0) =>
                 /\ nativeSteps = 1
                 /\ nativeResult \in NativeResults
                 /\ nativeResult = URC_NO_REASON => ret = URC_CONTINUE_UNWIND
                 /\ nativeResult # URC_NO_REASON => ret = URC_FAILURE
                 /\ ret \notin {URC_HANDLER_FOUND, URC_INSTALL_CONTEXT}
            /\ (Returned /\ ret = URC_CONTINUE_UNWIND) => nativeSteps = 1)
    /\ [][upc = "continue_unwind" => upc' = "returned" /\ nativeSteps' = 1]_vars

\* the native step of a search-phase call for a frame without action reported
\* handler found, and the routine returned failure
NativeStepTranslationWitness ==
    /\ SearchCall
    /\ Returned
    /\ eh_action.kind = "None"
    /\ nativeSteps = 1
    /\ nativeResult = URC_HANDLER_FOUND
    /\ ret = URC_FAILURE

\* ---- C32 ----
\* r15 as it was on entry, without its mode bit
EntryIpNoModeBit == entryGr[UNWIND_IP_REG] - (entryGr[UNWIND_IP_REG] % 2)

\* C32: the ip that the LSDA is looked up with is r15 with its lowest bit
\* cleared and then decremented by one, wrapping to the all-ones word when the
\* cleared value is 0; _Unwind_GetIPInfo always reports a return address, so
\* the decrement is always made, and in calls without lookup no ip is computed
LookupIpDecremented ==
    InCall =>
        IF lsdaLookups = 0 THEN eh_ip = 0
        ELSE /\ lsdaLookups = 1
             /\ eh_ip = IF EntryIpNoModeBit = 0 THEN Pow2(WordBits) - 1
                        ELSE EntryIpNoModeBit - 1
             /\ eh_ip % 2 = 1
             /\ eh_ip \in 0 .. (Pow2(WordBits) - 1)

\* the lookup was made for r15 = 1 (address 0 in Thumb mode): the ip wrapped
LookupIpDecrementedWitness ==
    /\ InCall
    /\ lsdaLookups = 1
    /\ entryGr[UNWIND_IP_REG] = 1
    /\ eh_ip = Pow2(WordBits) - 1

\* ---- C35 ----
\* C35: when the routine has returned handler found for a frame and is called
\* for the same frame with frame starting and no force flag, it returns install
\* context with r15 set from the landing pad of the same decoded action, and
\* makes no native step: it never answers continue
PhasesAgree ==
    (CleanupCall /\ ~ForceUnwind /\ prevRet = URC_HANDLER_FOUND) =>
        /\ eh_action.kind \in {"Catch", "Filter"}
        /\ upc # "continue_unwind"
        /\ nativeSteps = 0
        /\ Returned =>
             /\ ret = URC_INSTALL_CONTEXT
             /\ Unwind_GetGR(gr, UNWIND_IP_REG) =
                    BitOr(eh_action.lpad, BitAnd(entryGr[UNWIND_IP_REG], 1))

\* a filter was found in the search phase and is installed in the cleanup
\* phase call for the same frame
PhasesAgreeWitness ==
    /\ CleanupCall /\ ~ForceUnwind
    /\ prevRet = URC_HANDLER_FOUND
    /\ Returned
    /\ eh_action.kind = "Filter"
    /\ ret = URC_INSTALL_CONTEXT

\* ---- C36 ----
\* C36: when the routine has returned install context for a frame that decodes
\* to Cleanup and is called for the same frame with frame resume, it makes one
\* native step and returns its translation; it does not look the LSDA up and
\* leaves r0, r1 and r15 as the landing pad left them
CleanupInstalledOnce ==
    (InCall /\ prevRet = URC_INSTALL_CONTEXT /\ eh_action.kind = "Cleanup"
        /\ ActionBits = US_UNWIND_FRAME_RESUME) =>
        /\ lsdaLookups = 0
        /\ WritesNothing
        /\ upc \in {"dispatch", "continue_unwind", "returned"}
        /\ Returned =>
             /\ nativeSteps = 1
             /\ ret \in {URC_CONTINUE_UNWIND, URC_FAILURE}

\* the resume call arrived with r15 inside the landing pad that the call
\* before it installed, and the routine stepped past the frame
CleanupInstalledOnceWitness ==
    /\ Returned
    /\ prevRet = URC_INSTALL_CONTEXT
    /\ eh_action.kind = "Cleanup"
    /\ ActionBits = US_UNWIND_FRAME_RESUME
    /\ entryGr[UNWIND_IP_REG] \in LandingIps
    /\ ret = URC_CONTINUE_UNWIND

\* ---- C37 ----
\* C37: in a call with a virtual unwind frame, forced or not and whatever the
\* LSDA decodes to, r0, r1 and r15 stay as they were on entry and the routine
\* does not return install context
SearchInstallsNothing ==
    (InCall /\ ActionBits = US_VIRTUAL_UNWIND_FRAME) =>
        /\ Unwind_GetGR(gr, UNWIND_DATA_REG[1]) = entryGr[UNWIND_DATA_REG[1]]
        /\ Unwind_GetGR(gr, UNWIND_DATA_REG[2]) = entryGr[UNWIND_DATA_REG[2]]
        /\ Unwind_GetGR(gr, UNWIND_IP_REG) = entryGr[UNWIND_IP_REG]
        /\ ret # URC_INSTALL_CONTEXT

\* a catch handler was found in the search phase for a frame in Thumb mode
SearchInstallsNothingWitness ==
    /\ SearchCall
    /\ Returned
    /\ eh_action.kind = "Catch"
    /\ ret = URC_HANDLER_FOUND
    /\ entryGr[UNWIND_IP_REG] % 2 = 1
    /\ Unwind_GetGR(gr, UNWIND_IP_REG) # eh_action.lpad

\* ---- C33 ----
\* the key's initializer has been run for task t (its value was boxed)
InitRan(t, k) == ideal[t][k] # -1

\* the step is the call (self.init)() with the boxing of its value, by task t
RunsInit(t) == pc[t] = "miss_alloc" /\ pc'[t] # "miss_alloc"

\* C33: the key's initializer is run for a task only in a call of with in which
\* the task has no binding for the key and for which it has not been run
\* before, so at most once per (key, task); no other step of with boxes a
\* value; and whenever f is about to run on the key, or the task is past the
\* initializer in its first access, the initializer has been run for the pair
InitializerOnce ==
    /\ [](\A t \in Tasks :
            pc[t] \in {"miss_insert", "miss_incr", "miss_get", "miss_f", "hit_get", "hit_f"}
                => InitRan(t, key[t]))
    /\ [][\A t \in Tasks :
            /\ RunsInit(t) =>
                 /\ ~InitRan(t, key[t])
                 /\ Entries(t, key[t]) = {}
                 /\ InitRan(t, key[t])'
                 /\ Len(heap'[t]) = Len(heap[t]) + 1
            /\ Len(heap'[t]) # Len(heap[t]) =>
                 RunsInit(t) \/ counterCell'[t] # counterCell[t]
            /\ \A k \in Keys : InitRan(t, k) => InitRan(t, k)']_vars

\* a task is in f in its third call of with and the initializer has run once
\* for it: its arena holds the counter cell and one value
InitializerOnceWitness ==
    \E t \in Tasks :
        /\ pc[t] = "hit_f"
        /\ calls[t] = 3
        /\ Len(heap[t]) = 2
        /\ InitRan(t, key[t])

ClosureReadWhileLive ==
    \A t \in Tasks : entrypoint[t] \notin {"dropped", "dangling_read"}

====
